---- MODULE Spec2Model ----
(* Weez-Taskbox: the per-user task document kept in one blob ({username}.json) *)
(* and the Flask handlers of src/app.py that read, change and write it.        *)
(* One user key is modelled; the blob of that key is the variable store.       *)
(* Spec     : requests are served one after another (each handler is a step).  *)
(* ConcSpec : two threads serve requests; a handler's download and its upload  *)
(*            are separate steps (app.run(threaded=True)).                     *)
(* ConsistentSpec : ConcSpec from an absent key or a consistent document.     *)
EXTENDS Integers, Sequences, FiniteSets, TLC

VARIABLES store, clock, pc, pending, resp

vars == <<store, clock, pc, pending, resp>>

(* ---------------------------------------------------------------- bounds *)
MaxTasks == 2        \* add_task is not called on a list of MaxTasks tasks
MaxInitTasks == 1    \* longest task list of a document stored at the start

(* ------------------------------------------------------------- constants *)
MsPerSec == 1000     \* task_id = int(time.time() * 1000)
NoField == -1        \* a key that the JSON object does not have / None
NoText == "<missing>" \* request body without "text"

AddTexts == {"a", NoText}   \* the "text" of add_task requests
EditTexts == {"b"}          \* the "text" of edit_task requests
Seconds == {1, 2}           \* the seconds (of time.time()) in which requests arrive
Main == "t1"
Procs == {"t1", "t2"}

(* ------------------------------------------------------------ documents *)
NoStats == [total_completed |-> NoField, created_at |-> NoField, active_tasks |-> NoField]
NoTask == [id |-> NoField, text |-> "", completed |-> FALSE, created_at |-> NoField,
           last_edited |-> NoField]

Absent == [kind |-> "absent", tasks |-> <<>>, stats |-> NoStats]
Corrupt == [kind |-> "corrupt", tasks |-> <<>>, stats |-> NoStats]
Legacy(tasks) == [kind |-> "list", tasks |-> tasks, stats |-> NoStats]
Canonical(tasks, stats) == [kind |-> "dict", tasks |-> tasks, stats |-> stats]

\* {"total_completed": tc, "created_at": int(time.time())}
NewStats(tc, now) ==
  [total_completed |-> tc, created_at |-> now \div MsPerSec, active_tasks |-> NoField]

\* sum(1 for t in tasks if t.get("completed", False))
CountCompleted(tasks) == Cardinality({i \in 1..Len(tasks) : tasks[i].completed})

\* sum(1 for t in tasks if not t.get("completed", False))
CountActive(tasks) == Cardinality({i \in 1..Len(tasks) : ~tasks[i].completed})

\* FindIndex with the first task as the default of next() instead of None
FindIndexDefaultFirst(tasks, task_id) ==
  IF \E i \in 1..Len(tasks) : tasks[i].id = task_id
  THEN CHOOSE i \in 1..Len(tasks) :
         /\ tasks[i].id = task_id
         /\ \A j \in 1..(i-1) : tasks[j].id # task_id
  ELSE IF Len(tasks) > 0 THEN 1 ELSE 0

\* next((i for i, t in enumerate(tasks) if t['id'] == task_id), None); 1-based, 0 is None
FindIndex(tasks, task_id) ==
  IF \E i \in 1..Len(tasks) : tasks[i].id = task_id
  THEN CHOOSE i \in 1..Len(tasks) :
         /\ tasks[i].id = task_id
         /\ \A j \in 1..(i-1) : tasks[j].id # task_id
  ELSE 0

\* tasks.pop(task_index)
Pop(tasks, i) == [j \in 1..(Len(tasks)-1) |-> IF j < i THEN tasks[j] ELSE tasks[j+1]]

Max(a, b) == IF a >= b THEN a ELSE b

(* ------------------------------------------------ requests and responses *)
Response(op, code, message, stats, task) ==
  [op |-> op, code |-> code, message |-> message, stats |-> stats, task |-> task]

NoResponse == Response("none", 0, "", NoStats, NoTask)

\* what a handler does after its download: the upload it makes, if any, and its response
Result(upload, data, r) == [upload |-> upload, data |-> data, resp |-> r]

\* a thread that has no upload to make
NoResult == [upload |-> FALSE]

\* json.loads(blob_client.download_blob().readall().decode('utf-8')): raises when the blob
\* is absent, when the read fails (~ok) and when the bytes are not JSON
Loads(st, ok) == [raised |-> (~ok \/ st.kind \in {"absent", "corrupt"}), data |-> st]

\* "Handle older format": not isinstance(user_data, dict) or "tasks" not in user_data
IsOlderFormat(user_data) == user_data.kind = "list"

\* the migration of list_tasks, mark_task_completed, delete_task and edit_task
Migrate(user_data, now) ==
  IF IsOlderFormat(user_data)
  THEN Canonical(user_data.tasks, NewStats(CountCompleted(user_data.tasks), now))
  ELSE user_data

(* ---------------------------------------------------------------- handlers *)
\* create_blob with upload_blob(..., overwrite=True)
create_blob_overwrite(st, now) ==
  Result(TRUE, Canonical(<<>>, NewStats(0, now)),
         Response("create_blob", 201, "Blob created successfully", NoStats, NoTask))

\* create_blob: upload_blob(initial_data, overwrite=False) is one storage call
create_blob(st, now) ==
  IF st.kind = "absent"
  THEN Result(TRUE, Canonical(<<>>, NewStats(0, now)),
              Response("create_blob", 201, "Blob created successfully", NoStats, NoTask))
  ELSE Result(FALSE, st, Response("create_blob", 400, "Blob already exists", NoStats, NoTask))

\* add_task, the try block: the document that the new task is appended to
add_task_load(st, ok, now) ==
  LET r == Loads(st, ok) IN
  IF r.raised THEN Canonical(<<>>, NewStats(0, now))
  ELSE IF r.data.kind = "list"   \* "tasks" not in user_data: no task is the string "tasks"
       THEN Canonical(r.data.tasks, NewStats(0, now))
       ELSE r.data

add_task(st, ok, text, now) ==
  LET user_data == add_task_load(st, ok, now)
      new_task == [id |-> now, text |-> text, completed |-> FALSE,
                   created_at |-> now \div MsPerSec, last_edited |-> NoField]
      out == [user_data EXCEPT !.tasks = Append(@, new_task)]
  IN IF text = NoText   \* task_data["text"] raises KeyError outside any try
     THEN Result(FALSE, st, Response("add_task", 500, "KeyError", NoStats, NoTask))
     ELSE Result(TRUE, out, Response("add_task", 201, "Task added successfully", out.stats, new_task))

list_tasks(st, ok, now) ==
  LET r == Loads(st, ok)
      user_data == Migrate(r.data, now)
  IN IF r.raised
     THEN Result(FALSE, st, Response("list_tasks", 404, "No tasks found for this user", NoStats, NoTask))
     ELSE Result(IsOlderFormat(r.data), user_data,
                 Response("list_tasks", 200, "", user_data.stats, NoTask))

\* MarkCounter without the test of the task's completed flag
MarkCounterAlways(total_completed, task) == total_completed + 1

\* the counter of mark_task_completed: "Only increment counter if task wasn't already completed"
MarkCounter(total_completed, task) ==
  IF ~task.completed THEN total_completed + 1 ELSE total_completed

\* mark_task_completed that sets the flag and leaves the counter alone
mark_task_completed_flag_only(st, ok, task_id, now) ==
  LET r == Loads(st, ok)
      user_data == Migrate(r.data, now)
      i == FindIndex(user_data.tasks, task_id)
      task == [user_data.tasks[i] EXCEPT !.completed = TRUE]
      out == [user_data EXCEPT !.tasks[i] = task]
  IN IF r.raised
     THEN Result(FALSE, st, Response("mark_task_completed", 404, "Error processing task", NoStats, NoTask))
     ELSE IF i = 0
     THEN Result(FALSE, st, Response("mark_task_completed", 404, "Task not found", NoStats, NoTask))
     ELSE Result(TRUE, out, Response("mark_task_completed", 200, "Task marked as completed", out.stats, task))

mark_task_completed(st, ok, task_id, now) ==
  LET r == Loads(st, ok)
      user_data == Migrate(r.data, now)
      i == FindIndex(user_data.tasks, task_id)
      task == [user_data.tasks[i] EXCEPT !.completed = TRUE]
      out == [user_data EXCEPT
                !.stats.total_completed = MarkCounter(@, user_data.tasks[i]),
                !.tasks[i] = task]
  IN IF r.raised
     THEN Result(FALSE, st, Response("mark_task_completed", 404, "Error processing task", NoStats, NoTask))
     ELSE IF i = 0
     THEN Result(FALSE, st, Response("mark_task_completed", 404, "Task not found", NoStats, NoTask))
     ELSE Result(TRUE, out, Response("mark_task_completed", 200, "Task marked as completed", out.stats, task))

\* DeleteCounter without max(0, ...)
DeleteCounterNoFloor(total_completed, task) ==
  IF task.completed THEN total_completed - 1 ELSE total_completed

\* the counter of delete_task: "If the task was completed, decrement the counter"
DeleteCounter(total_completed, task) ==
  IF task.completed THEN Max(0, total_completed - 1) ELSE total_completed

\* delete_task that removes every task of that id: [t for t in tasks if t['id'] != task_id]
delete_task_all_matching(st, ok, task_id, now) ==
  LET r == Loads(st, ok)
      user_data == Migrate(r.data, now)
      task_index == FindIndex(user_data.tasks, task_id)
      out == [user_data EXCEPT
                !.stats.total_completed = DeleteCounter(@, user_data.tasks[task_index]),
                !.tasks = SelectSeq(@, LAMBDA t : t.id # task_id)]
  IN IF r.raised
     THEN Result(FALSE, st, Response("delete_task", 404, "Error deleting task", NoStats, NoTask))
     ELSE IF task_index = 0
     THEN Result(FALSE, st, Response("delete_task", 404, "Task not found", NoStats, NoTask))
     ELSE Result(TRUE, out, Response("delete_task", 200, "Task deleted successfully", out.stats, NoTask))

\* delete_task that deletes the blob with its last task
delete_task_drop_empty(st, ok, task_id, now) ==
  LET r == Loads(st, ok)
      user_data == Migrate(r.data, now)
      task_index == FindIndex(user_data.tasks, task_id)
      out == [user_data EXCEPT
                !.stats.total_completed = DeleteCounter(@, user_data.tasks[task_index]),
                !.tasks = Pop(@, task_index)]
  IN IF r.raised
     THEN Result(FALSE, st, Response("delete_task", 404, "Error deleting task", NoStats, NoTask))
     ELSE IF task_index = 0
     THEN Result(FALSE, st, Response("delete_task", 404, "Task not found", NoStats, NoTask))
     ELSE Result(TRUE, IF Len(out.tasks) = 0 THEN Absent ELSE out,
                 Response("delete_task", 200, "Task deleted successfully", out.stats, NoTask))

delete_task(st, ok, task_id, now) ==
  LET r == Loads(st, ok)
      user_data == Migrate(r.data, now)
      task_index == FindIndex(user_data.tasks, task_id)
      out == [user_data EXCEPT
                !.stats.total_completed = DeleteCounter(@, user_data.tasks[task_index]),
                !.tasks = Pop(@, task_index)]
  IN IF r.raised
     THEN Result(FALSE, st, Response("delete_task", 404, "Error deleting task", NoStats, NoTask))
     ELSE IF task_index = 0
     THEN Result(FALSE, st, Response("delete_task", 404, "Task not found", NoStats, NoTask))
     ELSE Result(TRUE, out, Response("delete_task", 200, "Task deleted successfully", out.stats, NoTask))

\* edit_task that stores a task built anew from the request, as add_task builds one
edit_task_rebuild(st, ok, task_id, new_text, now) ==
  LET r == Loads(st, ok)
      user_data == Migrate(r.data, now)
      i == FindIndex(user_data.tasks, task_id)
      task == [id |-> task_id, text |-> new_text, completed |-> FALSE,
               created_at |-> user_data.tasks[i].created_at,
               last_edited |-> now \div MsPerSec]
      out == [user_data EXCEPT !.tasks[i] = task]
  IN IF r.raised
     THEN Result(FALSE, st, Response("edit_task", 404, "Error updating task", NoStats, NoTask))
     ELSE IF i = 0
     THEN Result(FALSE, st, Response("edit_task", 404, "Task not found", NoStats, NoTask))
     ELSE Result(TRUE, out, Response("edit_task", 200, "Task updated successfully", out.stats, task))

\* edit_task that takes the task out of the list and appends the edited task
edit_task_move_last(st, ok, task_id, new_text, now) ==
  LET r == Loads(st, ok)
      user_data == Migrate(r.data, now)
      i == FindIndex(user_data.tasks, task_id)
      task == [user_data.tasks[i] EXCEPT !.text = new_text,
                                         !.last_edited = now \div MsPerSec]
      out == [user_data EXCEPT !.tasks = Append(Pop(@, i), task)]
  IN IF r.raised
     THEN Result(FALSE, st, Response("edit_task", 404, "Error updating task", NoStats, NoTask))
     ELSE IF i = 0
     THEN Result(FALSE, st, Response("edit_task", 404, "Task not found", NoStats, NoTask))
     ELSE Result(TRUE, out, Response("edit_task", 200, "Task updated successfully", out.stats, task))

edit_task(st, ok, task_id, new_text, now) ==
  LET r == Loads(st, ok)
      user_data == Migrate(r.data, now)
      i == FindIndex(user_data.tasks, task_id)
      task == [user_data.tasks[i] EXCEPT !.text = new_text,
                                         !.last_edited = now \div MsPerSec]
      out == [user_data EXCEPT !.tasks[i] = task]
  IN IF r.raised
     THEN Result(FALSE, st, Response("edit_task", 404, "Error updating task", NoStats, NoTask))
     ELSE IF i = 0
     THEN Result(FALSE, st, Response("edit_task", 404, "Task not found", NoStats, NoTask))
     ELSE Result(TRUE, out, Response("edit_task", 200, "Task updated successfully", out.stats, task))

\* get_stats without the upload of the healed stats
get_stats_no_persist(st, ok, now) ==
  LET r == Loads(st, ok)
      user_data == r.data
      active_tasks == CountActive(user_data.tasks)
      completed_tasks == CountCompleted(user_data.tasks)
      stats == [user_data.stats EXCEPT !.active_tasks = active_tasks]
      healed == [stats EXCEPT !.total_completed = completed_tasks]
  IN IF r.raised
     THEN Result(FALSE, st, Response("get_stats", 404, "Error retrieving stats", NoStats, NoTask))
     ELSE IF IsOlderFormat(user_data)
     THEN Result(FALSE, st,
                 Response("get_stats", 200, "",
                          [total_completed |-> completed_tasks,
                           created_at |-> now \div MsPerSec,
                           active_tasks |-> active_tasks], NoTask))
     ELSE Result(FALSE, st, Response("get_stats", 200, "", healed, NoTask))

get_stats(st, ok, now) ==
  LET r == Loads(st, ok)
      user_data == r.data
      active_tasks == CountActive(user_data.tasks)
      completed_tasks == CountCompleted(user_data.tasks)
      \* stats = user_data.get("stats", {}); stats["active_tasks"] = active_tasks
      \* changes the dictionary that user_data["stats"] is
      stats == [user_data.stats EXCEPT !.active_tasks = active_tasks]
      healed == [stats EXCEPT !.total_completed = completed_tasks]
  IN IF r.raised
     THEN Result(FALSE, st, Response("get_stats", 404, "Error retrieving stats", NoStats, NoTask))
     ELSE IF IsOlderFormat(user_data)
     THEN Result(FALSE, st,
                 Response("get_stats", 200, "",
                          [total_completed |-> completed_tasks,
                           created_at |-> now \div MsPerSec,
                           active_tasks |-> active_tasks], NoTask))
     ELSE IF stats.total_completed # completed_tasks
     THEN Result(TRUE, [user_data EXCEPT !.stats = healed],
                 Response("get_stats", 200, "", healed, NoTask))
     ELSE Result(FALSE, st, Response("get_stats", 200, "", stats, NoTask))

(* ------------------------------------------------------------ initial states *)
InitTask(id, completed) ==
  [id |-> id, text |-> "a", completed |-> completed, created_at |-> 0, last_edited |-> NoField]

\* the tasks stored at the start were added at different milliseconds: the k-th has id k
InitTaskLists(n) ==
  UNION {{[i \in 1..k |-> InitTask(i, done[i])] : done \in [1..k -> BOOLEAN]} : k \in 0..n}

\* the blob at the start: absent, not JSON, a list of the older format, or a document whose
\* stored counter is anything from 0 to one more than its number of tasks
InitDocs(n) ==
  {Absent, Corrupt}
    \cup {Legacy(ts) : ts \in InitTaskLists(n)}
    \cup UNION {{Canonical(ts, [total_completed |-> c, created_at |-> 0,
                                active_tasks |-> NoField]) : c \in 0..(Len(ts) + 1)} :
                  ts \in InitTaskLists(n)}

InitWith(docs) ==
  /\ store \in docs
  /\ clock \in {t * MsPerSec : t \in Seconds}
  /\ \A t \in Seconds : clock <= t * MsPerSec
  /\ pc = [p \in Procs |-> "idle"]
  /\ pending = [p \in Procs |-> NoResult]
  /\ resp = [p \in Procs |-> NoResponse]

Init == InitWith(InitDocs(MaxInitTasks))

\* the task ids that requests carry: the ids of the stored tasks, and 0 for an id that no
\* task has
RequestIds == {store.tasks[i].id : i \in 1..Len(store.tasks)} \cup {0}

\* the blob at the start of ConcSpec
ConcInit == InitWith(InitDocs(MaxInitTasks))

(* ----------------------------------------- requests served one after another *)
\* time passes between requests
Tick ==
  /\ \E t \in Seconds : t * MsPerSec > clock /\ clock' = t * MsPerSec
  /\ UNCHANGED <<store, pc, pending, resp>>

\* thread p is between requests
Idle(p) == pc[p] = "idle"

\* thread p serves a request from its download to its response in one step
Serve(p, result) ==
  \E h \in {result} :
    /\ store' = IF h.upload THEN h.data ELSE store
    /\ resp' = [resp EXCEPT ![p] = h.resp]
    /\ UNCHANGED <<clock, pc, pending>>

CreateBlob ==
  /\ Idle(Main)
  /\ Serve(Main, create_blob(store, clock))

\* ok = FALSE: the download fails although the blob is stored. Only add_task tells no
\* failed download from an absent blob; the other handlers answer both from one except branch
AddTask ==
  /\ Idle(Main)
  /\ Len(store.tasks) < MaxTasks
  /\ \E ok \in BOOLEAN, text \in AddTexts : Serve(Main, add_task(store, ok, text, clock))

ListTasks ==
  /\ Idle(Main)
  /\ Serve(Main, list_tasks(store, TRUE, clock))

MarkCompleted ==
  /\ Idle(Main)
  /\ \E task_id \in RequestIds : Serve(Main, mark_task_completed(store, TRUE, task_id, clock))

DeleteTask ==
  /\ Idle(Main)
  /\ \E task_id \in RequestIds : Serve(Main, delete_task(store, TRUE, task_id, clock))

EditTask ==
  /\ Idle(Main)
  /\ \E task_id \in RequestIds, text \in EditTexts :
       Serve(Main, edit_task(store, TRUE, task_id, text, clock))

GetStats ==
  /\ Idle(Main)
  /\ Serve(Main, get_stats(store, TRUE, clock))

Next ==
  \/ Tick
  \/ CreateBlob
  \/ AddTask
  \/ ListTasks
  \/ MarkCompleted
  \/ DeleteTask
  \/ EditTask
  \/ GetStats

Spec == Init /\ [][Next]_vars

(* ------------------------------------------- requests served by two threads *)
\* app.run(threaded=True): each request runs on a thread of its own. A thread serves one
\* request; its download and its upload are separate calls to the storage account, and the
\* other thread's calls may come between them.
Fresh(p) == Idle(p) /\ resp[p] = NoResponse

\* the handler's download and what it computes from it, up to its upload if it makes one
Begin(p, result) ==
  \E h \in {result} :
    /\ IF h.upload
       THEN /\ pc' = [pc EXCEPT ![p] = "upload"]
            /\ pending' = [pending EXCEPT ![p] = h]
            /\ UNCHANGED <<store, resp>>
       ELSE /\ resp' = [resp EXCEPT ![p] = h.resp]
            /\ UNCHANGED <<store, pc, pending>>
    /\ UNCHANGED clock

\* Upload with upload_blob(..., overwrite=False): ResourceExistsError on a stored blob
UploadNoOverwrite(p) ==
  /\ pc[p] = "upload"
  /\ store' = IF store.kind = "absent" THEN pending[p].data ELSE store
  /\ resp' = [resp EXCEPT ![p] =
                IF store.kind = "absent" THEN pending[p].resp
                ELSE Response(pending[p].resp.op, 500, "ResourceExistsError", NoStats, NoTask)]
  /\ pc' = [pc EXCEPT ![p] = "idle"]
  /\ pending' = [pending EXCEPT ![p] = NoResult]
  /\ UNCHANGED clock

\* blob_client.upload_blob(json.dumps(user_data), overwrite=True), then the response
Upload(p) ==
  /\ pc[p] = "upload"
  /\ store' = pending[p].data
  /\ resp' = [resp EXCEPT ![p] = pending[p].resp]
  /\ pc' = [pc EXCEPT ![p] = "idle"]
  /\ pending' = [pending EXCEPT ![p] = NoResult]
  /\ UNCHANGED clock

\* create_blob makes one storage call, upload_blob(..., overwrite=False)
TCreateBlob(p) ==
  /\ Fresh(p)
  /\ Serve(p, create_blob(store, clock))

TAddTask(p) ==
  /\ Fresh(p)
  /\ Len(store.tasks) < MaxTasks
  /\ \E ok \in BOOLEAN, text \in AddTexts : Begin(p, add_task(store, ok, text, clock))

TListTasks(p) ==
  /\ Fresh(p)
  /\ Begin(p, list_tasks(store, TRUE, clock))

TMarkCompleted(p) ==
  /\ Fresh(p)
  /\ \E task_id \in RequestIds : Begin(p, mark_task_completed(store, TRUE, task_id, clock))

TDeleteTask(p) ==
  /\ Fresh(p)
  /\ \E task_id \in RequestIds : Begin(p, delete_task(store, TRUE, task_id, clock))

TEditTask(p) ==
  /\ Fresh(p)
  /\ \E task_id \in RequestIds, text \in EditTexts :
       Begin(p, edit_task(store, TRUE, task_id, text, clock))

TGetStats(p) ==
  /\ Fresh(p)
  /\ Begin(p, get_stats(store, TRUE, clock))

ConcNext ==
  \/ Tick
  \/ \E p \in Procs : TCreateBlob(p)
  \/ \E p \in Procs : TAddTask(p)
  \/ \E p \in Procs : TListTasks(p)
  \/ \E p \in Procs : TMarkCompleted(p)
  \/ \E p \in Procs : TDeleteTask(p)
  \/ \E p \in Procs : TEditTask(p)
  \/ \E p \in Procs : TGetStats(p)
  \/ \E p \in Procs : Upload(p)

ConcSpec == ConcInit /\ [][ConcNext]_vars

(* ------------------------- two threads, from an absent key or a consistent document *)
\* the blob at the start: absent, or a document whose stored counter is the number of its
\* completed tasks
ConsistentDocs(n) ==
  {Absent} \cup {Canonical(ts, [total_completed |-> CountCompleted(ts), created_at |-> 0,
                                active_tasks |-> NoField]) : ts \in InitTaskLists(n)}

ConsistentInit == InitWith(ConsistentDocs(MaxInitTasks))

ConsistentSpec == ConsistentInit /\ [][ConcNext]_vars

(* ==================================================================== claims *)
\* the response to the last request served (Spec serves all requests on one thread)
Last == resp[Main]
Succeeded(r) == r.code \in {200, 201}
Mutators == {"add_task", "edit_task", "mark_task_completed", "delete_task"}

\* the counter that a handler other than add_task starts from: the stored one, or for a list
\* of the older format the number of its completed tasks
CounterBefore(st) ==
  IF st.kind = "list" THEN CountCompleted(st.tasks) ELSE st.stats.total_completed

\* C1: after add_task, edit_task, mark_task_completed or delete_task has succeeded, whatever
\* was stored before, the stored total_completed is the number of completed stored tasks.
C1_StatsInvariant ==
  (Last.op \in Mutators /\ Succeeded(Last)) =>
    (store.kind = "dict" /\ store.stats.total_completed = CountCompleted(store.tasks))

\* C2: every successful response with stats reports as total_completed the number of
\* completed tasks of the document the request returned or stored.
C2_ResponseStatsReconciled ==
  (Succeeded(Last) /\ Last.stats # NoStats) =>
    Last.stats.total_completed = CountCompleted(store.tasks)

\* C3: in every reachable state, for every id of a stored task: mark_task_completed sets the
\* task's completed flag and adds 1 to the counter exactly when the task was not completed,
\* and a second mark_task_completed of that id on the document the first one stored leaves
\* the counter and the flag as the first one left them.
C3_MarkTwiceCountsOnce ==
  \A task_id \in RequestIds :
    \A i \in {FindIndex(store.tasks, task_id)} :
      (store.kind \in {"list", "dict"} /\ i # 0) =>
        \A first \in {mark_task_completed(store, TRUE, task_id, clock)} :
          \A second \in {mark_task_completed(first.data, TRUE, task_id, clock)} :
            /\ first.upload /\ first.resp.code = 200
            /\ first.data.tasks[i].completed
            /\ first.data.stats.total_completed =
                 CounterBefore(store) + (IF store.tasks[i].completed THEN 0 ELSE 1)
            /\ second.resp.code = 200
            /\ second.data.tasks[i].completed
            /\ second.data.stats.total_completed = first.data.stats.total_completed
            /\ second.resp.stats.total_completed = first.resp.stats.total_completed

\* mark_task_completed has answered 200 for a task and the stored counter is 1
C3_Witness ==
  /\ Last.op = "mark_task_completed" /\ Last.code = 200
  /\ Last.task.completed
  /\ store.kind = "dict" /\ store.stats.total_completed = 1
  /\ CountCompleted(store.tasks) = 1

\* C4: in every reachable state, for every id of a stored task: delete_task stores a counter
\* that is not below 0; it is the counter before less 1, but 0 when that is below 0, when the
\* deleted task was completed, and the counter before when it was not.
C4_DeleteFloor ==
  \A task_id \in RequestIds :
    \A i \in {FindIndex(store.tasks, task_id)} :
      (store.kind \in {"list", "dict"} /\ i # 0) =>
        \A h \in {delete_task(store, TRUE, task_id, clock)}, before \in {CounterBefore(store)} :
          /\ h.upload /\ h.resp.code = 200
          /\ h.data.stats.total_completed >= 0
          /\ h.data.stats.total_completed =
               (IF ~store.tasks[i].completed THEN before
                ELSE IF before >= 1 THEN before - 1 ELSE 0)
          /\ h.resp.stats.total_completed = h.data.stats.total_completed

\* delete_task has answered 200 with a counter of 0 although a completed task is still stored
C4_Witness ==
  /\ Last.op = "delete_task" /\ Last.code = 200
  /\ Last.stats.total_completed = 0
  /\ store.kind = "dict" /\ store.stats.total_completed = 0
  /\ CountCompleted(store.tasks) >= 1

\* C5: whenever a list of the older format is stored, the document that list_tasks,
\* mark_task_completed, delete_task and edit_task build from it, and the stats that get_stats
\* builds, have as total_completed the number of completed tasks of the list; and an add_task
\* step on such a list, which appends an uncompleted task to the document it builds and
\* leaves the stats of that document alone, stores that number as total_completed.
C5_MigrationCounts ==
  /\ [](store.kind = "list" =>
          /\ Migrate(store, clock).stats.total_completed = CountCompleted(store.tasks)
          /\ get_stats(store, TRUE, clock).resp.stats.total_completed
               = CountCompleted(store.tasks))
  /\ [][\A text \in AddTexts \ {NoText} :
          (store.kind = "list" /\ Idle(Main) /\ Serve(Main, add_task(store, TRUE, text, clock)))
          => store'.stats.total_completed = CountCompleted(store.tasks)]_vars

\* C6: once a request that loaded the stored blob has returned (with success, or with "Task
\* not found"), the stored blob is not a list of the older format.
C6_MigrationWrittenBack ==
  (Last.op \notin {"none", "create_blob"} /\ (Succeeded(Last) \/ Last.message = "Task not found"))
    => store.kind # "list"

\* C7: an add_task step on a stored blob whose load fails (not JSON, or a failed download)
\* leaves the blob as it is and answers with an error.
C7_AddTaskSurfacesLoadFailure ==
  [][\A ok \in BOOLEAN, text \in AddTexts :
       (/\ store.kind # "absent"
        /\ Loads(store, ok).raised
        /\ Idle(Main)
        /\ Serve(Main, add_task(store, ok, text, clock)))
       => (store' = store /\ ~Succeeded(resp'[Main]))]_vars

\* C8: in every reachable state where the blob is a document or absent: edit_task,
\* mark_task_completed and delete_task with an id that no stored task has answer 404 and
\* upload nothing.
C8_NotFoundNoWrite ==
  \A task_id \in RequestIds \cup {clock} :
    (/\ store.kind \in {"dict", "absent"}
     /\ \A i \in 1..Len(store.tasks) : store.tasks[i].id # task_id)
    => \A h \in {edit_task(store, TRUE, task_id, text, clock) : text \in EditTexts}
                 \cup {mark_task_completed(store, TRUE, task_id, clock),
                       delete_task(store, TRUE, task_id, clock)} :
         ~h.upload /\ h.resp.code = 404 /\ h.resp.stats = NoStats

\* edit_task has answered "Task not found" on a stored document that has tasks
C8_Witness ==
  /\ Last.op = "edit_task" /\ Last.code = 404 /\ Last.message = "Task not found"
  /\ store.kind = "dict" /\ Len(store.tasks) > 0

\* C9: with two threads, in every interleaving: a create_blob step on a stored blob leaves
\* the blob as it is and answers 400, and the two threads' create_blob requests do not both
\* answer 201.
C9_CreateNeverOverwrites ==
  /\ [][\A p \in Procs :
          (TCreateBlob(p) /\ store.kind # "absent")
          => (store' = store /\ resp'[p].code = 400)]_vars
  /\ [](~(\A p \in Procs : resp[p].op = "create_blob" /\ resp[p].code = 201))

\* one thread's create_blob has answered 201 and the other thread's 400
C9_Witness ==
  \E p, q \in Procs :
    /\ resp[p].op = "create_blob" /\ resp[p].code = 201
    /\ resp[q].op = "create_blob" /\ resp[q].code = 400

\* C10: the stats of the stored document have no active_tasks.
C10_ActiveTasksNotStored ==
  store.kind = "dict" => store.stats.active_tasks = NoField

\* C11: while a document is stored, every step leaves a document stored whose stats.created_at
\* is the stored one, and a response that carries stats reports that created_at; while a list
\* of the older format is stored, the responses that carry stats report one created_at.
C11_CreatedAtImmutable ==
  [][/\ store.kind = "dict" =>
          /\ store'.kind = "dict"
          /\ store'.stats.created_at = store.stats.created_at
          /\ (resp'[Main].stats # NoStats =>
                resp'[Main].stats.created_at = store.stats.created_at)
     /\ (store.kind = "list" /\ Last.stats # NoStats /\ resp'[Main].stats # NoStats) =>
          resp'[Main].stats.created_at = Last.stats.created_at]_vars

\* tasks without its last element
Front(tasks) == SubSeq(tasks, 1, Len(tasks) - 1)

\* C12: with two threads: when thread q's add_task has stored the document it loaded with its
\* task appended and answered 201, and thread p's add_task, which loaded a document of the
\* same tasks before q's upload, now uploads, then p answers 201 too and the stored tasks are
\* the loaded ones followed by p's task alone: one task more than loaded, not two, and q's
\* task, when it is not p's task nor one of the loaded ones, is not stored any more.
C12_LostUpdate ==
  [][\A p \in Procs : \A q \in Procs \ {p} :
       (/\ pc[p] = "upload" /\ pending[p].resp.op = "add_task"
        /\ Idle(q) /\ resp[q].op = "add_task" /\ resp[q].code = 201
        /\ store.tasks = Append(Front(pending[p].data.tasks), resp[q].task)
        /\ Upload(p))
       => \A loaded \in {Front(store.tasks)} :
            /\ resp'[p].code = 201
            /\ store'.tasks = Append(loaded, resp'[p].task)
            /\ Len(store'.tasks) = Len(loaded) + 1
            /\ (/\ resp[q].task # resp'[p].task
                /\ \A i \in 1..Len(loaded) : loaded[i] # resp[q].task)
               => \A i \in 1..Len(store'.tasks) : store'.tasks[i] # resp[q].task]_vars

\* both threads' add_task have answered 201 for tasks of different ids, and the only stored
\* task is one of the two
C12_Witness ==
  \E p \in Procs : \E q \in Procs \ {p} :
    /\ resp[p].op = "add_task" /\ resp[p].code = 201
    /\ resp[q].op = "add_task" /\ resp[q].code = 201
    /\ resp[p].task.id # resp[q].task.id
    /\ store.kind = "dict" /\ store.tasks = <<resp[p].task>>

\* C13: an add_task step that answers 201 on a stored document, or on an absent key, stores a
\* document with the stored tasks, unchanged and in their order, followed by one new task
\* that is not completed; the stats of a stored document are stored unchanged, and on an
\* absent key the stored tasks are the new task alone and total_completed is 0.
C13_AddTaskFrame ==
  [][\A ok \in BOOLEAN, text \in AddTexts :
       (/\ store.kind \in {"dict", "absent"}
        /\ Idle(Main) /\ Len(store.tasks) < MaxTasks
        /\ Serve(Main, add_task(store, ok, text, clock))
        /\ resp'[Main].code = 201)
       => /\ store'.kind = "dict"
          /\ Len(store'.tasks) = Len(store.tasks) + 1
          /\ \A i \in 1..Len(store.tasks) : store'.tasks[i] = store.tasks[i]
          /\ ~store'.tasks[Len(store'.tasks)].completed
          /\ store'.tasks[Len(store'.tasks)] = resp'[Main].task
          /\ (store.kind = "dict" => store'.stats = store.stats)
          /\ (store.kind = "absent" =>
                store'.tasks = <<resp'[Main].task>> /\ store'.stats.total_completed = 0)]_vars

\* C14: an add_task step for a request without "text" leaves the stored blob as it is and
\* answers with a client error (a 4xx code).
C14_MissingTextIsValidationError ==
  [][\A ok \in BOOLEAN :
       (/\ Idle(Main) /\ Len(store.tasks) < MaxTasks
        /\ Serve(Main, add_task(store, ok, NoText, clock)))
       => (store' = store /\ resp'[Main].code \in 400..499)]_vars

\* C15: with two threads, in every interleaving: a step from a state where a blob is stored
\* leaves a blob stored, and a step from a state where a document is stored leaves a
\* document stored (not a list of the older format, not an unreadable blob).
C15_NeverDeletedNeverLegacy ==
  [][/\ store.kind # "absent" => store'.kind # "absent"
     /\ store.kind = "dict" => store'.kind = "dict"]_vars

\* a delete_task has answered 200 and the stored document has no task left
C15_Witness ==
  \E p \in Procs :
    /\ resp[p].op = "delete_task" /\ resp[p].code = 200
    /\ store.kind = "dict" /\ Len(store.tasks) = 0

\* C16: in every reachable state where a document is stored: when its total_completed is
\* not the number of its completed tasks, get_stats answers 200 with that number and uploads
\* the document with that number as total_completed and the tasks as they are; when the
\* two agree, get_stats answers 200 with that number and uploads nothing.
C16_GetStatsSelfHeals ==
  store.kind = "dict" =>
    \A h \in {get_stats(store, TRUE, clock)}, n \in {CountCompleted(store.tasks)} :
      /\ h.resp.code = 200
      /\ h.resp.stats.total_completed = n
      /\ IF store.stats.total_completed # n
         THEN /\ h.upload
              /\ h.data.kind = "dict"
              /\ h.data.tasks = store.tasks
              /\ h.data.stats.total_completed = n
              /\ h.data.stats.created_at = store.stats.created_at
         ELSE ~h.upload

\* get_stats has answered and has stored the stats it answered: they are the stored stats,
\* active_tasks included, and the stored counter is the number of completed tasks
C16_Witness ==
  /\ Last.op = "get_stats" /\ Last.code = 200
  /\ store.kind = "dict" /\ store.stats = Last.stats
  /\ store.stats.active_tasks = CountActive(store.tasks)
  /\ store.stats.total_completed = CountCompleted(store.tasks)
  /\ Len(store.tasks) > 0

\* C17: in every reachable state, for every id of a stored task: edit_task answers 200 and
\* uploads a document with as many tasks, in which the first task of that id has the new
\* text and last_edited and its other fields (id, completed, created_at) as before, every
\* other task is at its place as before, and total_completed is the counter before (the
\* stats of a stored document are uploaded as they are); the response carries that task.
C17_EditTaskFrame ==
  \A task_id \in RequestIds, new_text \in EditTexts :
    \A i \in {FindIndex(store.tasks, task_id)} :
      (store.kind \in {"list", "dict"} /\ i # 0) =>
        \A h \in {edit_task(store, TRUE, task_id, new_text, clock)} :
          /\ h.upload /\ h.resp.code = 200
          /\ Len(h.data.tasks) = Len(store.tasks)
          /\ \A j \in 1..Len(store.tasks) : j # i => h.data.tasks[j] = store.tasks[j]
          /\ h.data.tasks[i].text = new_text
          /\ h.data.tasks[i].last_edited = clock \div MsPerSec
          /\ h.data.tasks[i].id = task_id
          /\ h.data.tasks[i].completed = store.tasks[i].completed
          /\ h.data.tasks[i].created_at = store.tasks[i].created_at
          /\ h.data.stats.total_completed = CounterBefore(store)
          /\ (store.kind = "dict" => h.data.stats = store.stats)
          /\ h.resp.task = h.data.tasks[i]

\* edit_task has answered 200 for the first of two stored tasks, a completed one, and the
\* second stored task has never been edited
C17_Witness ==
  /\ Last.op = "edit_task" /\ Last.code = 200
  /\ store.kind = "dict" /\ Len(store.tasks) = 2
  /\ store.tasks[1] = Last.task
  /\ Last.task.completed /\ Last.task.text \in EditTexts
  /\ store.tasks[2].last_edited = NoField

\* C18: in every reachable state, for every id that stored tasks have, one or several:
\* delete_task answers 200 and uploads a document with one task less, in which the tasks
\* before the first task of that id are at their places and the tasks after it are each one
\* place earlier, unchanged.
C18_DeleteFirstMatch ==
  \A task_id \in RequestIds :
    (/\ store.kind \in {"list", "dict"}
     /\ \E i \in 1..Len(store.tasks) : store.tasks[i].id = task_id)
    => \A h \in {delete_task(store, TRUE, task_id, clock)} :
         \E k \in 1..Len(store.tasks) :
           /\ store.tasks[k].id = task_id
           /\ \A j \in 1..(k - 1) : store.tasks[j].id # task_id
           /\ h.upload /\ h.resp.code = 200
           /\ Len(h.data.tasks) = Len(store.tasks) - 1
           /\ \A j \in 1..(k - 1) : h.data.tasks[j] = store.tasks[j]
           /\ \A j \in k..Len(h.data.tasks) : h.data.tasks[j] = store.tasks[j + 1]

\* delete_task has answered 200 and one task, added by add_task at this millisecond, is
\* left of the two that were stored
C18_Witness ==
  /\ Last.op = "delete_task" /\ Last.code = 200
  /\ store.kind = "dict" /\ Len(store.tasks) = 1
  /\ store.tasks[1].id = clock
  /\ Last.stats = store.stats

\* a document whose stored counter is the number of its completed tasks
Consistent(doc) ==
  doc.kind = "dict" /\ doc.stats.total_completed = CountCompleted(doc.tasks)

\* C19: with two threads, from an absent key or a consistent document, in every interleaving:
\* the key is absent or the stored document's total_completed is the number of its completed
\* tasks, and so is that of every document that a thread is about to upload.
C19_ConcurrentWritesConsistent ==
  /\ store.kind = "absent" \/ Consistent(store)
  /\ \A p \in Procs : pc[p] = "upload" => Consistent(pending[p].data)

\* an update has been lost and the counter is consistent: mark_task_completed and edit_task
\* have both answered 200 for the stored task, which is stored edited and not completed
C19_Witness ==
  \E p \in Procs : \E q \in Procs \ {p} :
    /\ resp[p].op = "mark_task_completed" /\ resp[p].code = 200
    /\ resp[q].op = "edit_task" /\ resp[q].code = 200
    /\ store.kind = "dict" /\ store.tasks = <<resp[q].task>>
    /\ resp[p].task.id = resp[q].task.id
    /\ ~store.tasks[1].completed
    /\ store.stats.total_completed = 0

\* the number of completed tasks, and of tasks, that have the id
CompletedOf(tasks, id) ==
  Cardinality({i \in 1..Len(tasks) : tasks[i].id = id /\ tasks[i].completed})
TasksOf(tasks, id) == Cardinality({i \in 1..Len(tasks) : tasks[i].id = id})

\* no completed task of before is uncompleted in after: for every id, after has as many
\* completed tasks of that id as before, unless it has fewer tasks of that id
KeepsCompleted(before, after) ==
  \A i \in 1..Len(before) :
    \A id \in {before[i].id} :
      \/ CompletedOf(after, id) >= CompletedOf(before, id)
      \/ TasksOf(after, id) < TasksOf(before, id)

\* what the handlers that upload after a download compute from the document st, when their
\* download of st succeeds, at any time and for any request
LoadedResults(st) ==
  UNION {{add_task(st, TRUE, text, now) : text \in AddTexts}
           \cup {list_tasks(st, TRUE, now), get_stats(st, TRUE, now)}
           \cup UNION {{mark_task_completed(st, TRUE, st.tasks[i].id, now),
                        delete_task(st, TRUE, st.tasks[i].id, now)}
                         \cup {edit_task(st, TRUE, st.tasks[i].id, text, now) :
                                 text \in EditTexts} :
                       i \in 1..Len(st.tasks)} :
         now \in {t * MsPerSec : t \in Seconds}}

\* C20: with two threads, in every interleaving: no step stores a task uncompleted that was
\* stored completed, as long as a task of that id stays stored.
C20_CompletionPermanent ==
  [][KeepsCompleted(store.tasks, store'.tasks)]_vars

\* C20 as amended: with two threads, in every interleaving: an upload of the document that
\* its handler computes from the document stored at the time of the upload (no other upload
\* has come between the handler's download and its upload) stores no task uncompleted that
\* was stored completed, as long as a task of that id stays stored.
C20_LoadedWritesKeepCompletion ==
  [][\A p \in Procs :
       (Upload(p) /\ pending[p] \in LoadedResults(store))
       => KeepsCompleted(store.tasks, store'.tasks)]_vars

\* mark_task_completed and edit_task have both answered 200 for the stored task, and it is
\* stored edited and completed
C20_Witness ==
  \E p \in Procs : \E q \in Procs \ {p} :
    /\ resp[p].op = "mark_task_completed" /\ resp[p].code = 200
    /\ resp[q].op = "edit_task" /\ resp[q].code = 200
    /\ resp[p].task.id = resp[q].task.id
    /\ store.kind = "dict" /\ store.tasks = <<resp[q].task>>
    /\ store.tasks[1].completed /\ store.tasks[1].last_edited # NoField

====
